---- MODULE Spec2Model ----
(***************************************************************************)
(* Model of the turtle interpreter of pathfinder (turtle/src/lib.rs):      *)
(* BuiltTurtle::from_ast folds a command sequence into a Scene, a turtle   *)
(* state and a set of result flags.                                        *)
(*                                                                         *)
(* f32 coordinates, widths and distances are fixed-point integers in       *)
(* units of 1/Unit; headings are whole degrees, multiples of 90, so that   *)
(* sin and cos are exact.                                                  *)
(***************************************************************************)
EXTENDS Integers, Sequences, FiniteSets, TLC

\* ------------------------------------------------------------------ bounds
\* Longest program interpreted.
MaxLen == 4

\* Longest program of the runs checked for termination.
MaxLiveLen == 3

\* Longest program of the runs that only draw (pen, colour and move commands).
MaxDrawLen == 6

\* Longest program of the runs that vary the pen width.
MaxWidthLen == 4

\* Most lexemes of a text given to a parser.
MaxTokens == 6

\* Most input events delivered to the demo app.
MaxEvents == 3

\* Most frames the demo app draws.
MaxFrames == 5

\* ------------------------------------------------------- numeric carriers
\* Fixed-point scale of the f32 values: 1.0 is Unit.
Unit == 20000

\* const HAIRLINE_STROKE_WIDTH: f32 = 0.0333
HAIRLINE_STROKE_WIDTH == 666

\* BuildResultFlags bits.
ERR_UNHANDLED_COMMAND == 1
ERR_POPLOC_EMPTY_STACK == 2
ERR_POPROT_EMPTY_STACK == 4

\* BuildResultFlags::empty()
FlagsEmpty == 0

\* flags.contains(bit) / flags | bit, on the u16 bit set.
FlagsContains(flags, bit) == (flags \div bit) % 2 = 1
FlagsInsert(flags, bit) == IF FlagsContains(flags, bit) THEN flags ELSE flags + bit

\* NAMES of the Display implementation, in bit order.
NAMES == <<"unhandled command", "poploc on empty stack", "poprot on empty stack">>

\* The loop of Display::fmt from NAMES[bit] on: out is what was written so far.
RECURSIVE FmtFrom(_, _, _, _)
FmtFrom(flags, bit, first, out) ==
    IF bit >= Len(NAMES) THEN out
    ELSE IF (flags \div (2 ^ bit)) % 2 = 0 THEN FmtFrom(flags, bit + 1, first, out)
    ELSE FmtFrom(flags, bit + 1, FALSE,
                 (IF first THEN out ELSE out \o ", ") \o NAMES[bit + 1])

\* impl Display for BuildResultFlags
Display(flags) == IF flags = FlagsEmpty THEN "" ELSE FmtFrom(flags, 0, TRUE, "")

\* Rust's % on f32 (fmod): the result takes the sign of the dividend.
RustRem(a, b) == IF a >= 0 THEN a % b ELSE 0 - ((0 - a) % b)

Min(a, b) == IF a <= b THEN a ELSE b
Max(a, b) == IF a >= b THEN a ELSE b

\* f32::to_radians().sin_cos() at the headings the model reaches: <<sin, cos>>.
SinCos(deg) ==
    CASE deg = 0 -> <<0, 1>>
      [] deg = 90 -> <<1, 0>>
      [] deg = 180 -> <<0, -1>>
      [] deg = 270 -> <<-1, 0>>

\* --------------------------------------------------------------- geometry
\* RectF32::new(origin, size): stored as origin and lower right corner.
RectNew(ox, oy, w, h) == [ox |-> ox, oy |-> oy, lx |-> ox + w, ly |-> oy + h]

\* RectF32::default()
RectDefault == [ox |-> 0, oy |-> 0, lx |-> 0, ly |-> 0]

\* RectF32::union_point
UnionPoint(r, x, y) ==
    [ox |-> Min(r.ox, x), oy |-> Min(r.oy, y), lx |-> Max(r.lx, x), ly |-> Max(r.ly, y)]

\* RectF32::union_rect
UnionRect(r, o) ==
    [ox |-> Min(r.ox, o.ox), oy |-> Min(r.oy, o.oy),
     lx |-> Max(r.lx, o.lx), ly |-> Max(r.ly, o.ly)]

\* Sign of the direction of travel along one axis.
Sgn(a) == IF a > 0 THEN 1 ELSE IF a < 0 THEN -1 ELSE 0

\* OutlineStrokeToFill::new(outline, stroke_width).offset(): the segment is
\* offset by half the stroke width on both sides, perpendicular to its
\* direction; the outline keeps the segment, the width and the four corners'
\* bounding rectangle (stroke_width is a multiple of 2 in fixed point).
StrokeOutline(x1, y1, x2, y2, stroke_width) ==
    LET r == stroke_width \div 2
        nx == (0 - Sgn(y2 - y1)) * r
        ny == Sgn(x2 - x1) * r
        b0 == RectNew(x1 + nx, y1 + ny, 0, 0)
        b1 == UnionPoint(b0, x1 - nx, y1 - ny)
        b2 == UnionPoint(b1, x2 + nx, y2 + ny)
        b3 == UnionPoint(b2, x2 - nx, y2 - ny)
    IN  [from |-> <<x1, y1>>, to |-> <<x2, y2>>, width |-> stroke_width, bounds |-> b3]

\* ------------------------------------------------------------------ scene
\* Scene::new()
SceneNew == [bounds |-> RectDefault, objects |-> <<>>, paints |-> <<>>,
             view_box |-> RectDefault]

\* Paint::from_pencolor / from_rgb: alpha is 255.
PaintFromPencolor(pen_color) ==
    [r |-> pen_color[1], g |-> pen_color[2], b |-> pen_color[3], a |-> 255]

\* Index (0-based PaintId) of a paint already in the list.
PaintIndex(paints, paint) ==
    (CHOOSE i \in 1..Len(paints) : paints[i] = paint) - 1

\* Scene::push_paint: <<scene', PaintId>>; a known paint keeps its id.
PushPaint(scene, paint) ==
    IF \E i \in 1..Len(scene.paints) : scene.paints[i] = paint
    THEN <<scene, PaintIndex(scene.paints, paint)>>
    ELSE <<[scene EXCEPT !.paints = Append(@, paint)], Len(scene.paints)>>

\* u32::to_string(): the decimal digits, most significant first.
RECURSIVE ToDigits(_)
ToDigits(n) == IF n < 10 THEN <<n>> ELSE Append(ToDigits(n \div 10), n % 10)

\* ----------------------------------------------------------- turtle state
\* A fresh turtle state with the pen down.
TurtleStateNewPenDown ==
    [pos_x |-> 0, pos_y |-> 0, direction |-> 0, pen_down |-> TRUE,
     positions |-> <<>>, directions |-> <<>>,
     pen_width |-> Unit, pen_color |-> <<0, 0, 0>>,
     bounds |-> RectNew(0, 0, 0, 0)]

\* TurtleState::new()
TurtleStateNew ==
    [pos_x |-> 0, pos_y |-> 0, direction |-> 0, pen_down |-> FALSE,
     positions |-> <<>>, directions |-> <<>>,
     pen_width |-> Unit, pen_color |-> <<0, 0, 0>>,
     bounds |-> RectNew(0, 0, 0, 0)]

\* The BuiltTurtle constructed at the top of from_ast.
BuiltNew ==
    [id_counter |-> 0, scene |-> SceneNew, result_flags |-> FlagsEmpty,
     state |-> TurtleStateNew]

\* ---------------------------------------------------------------- commands
\* The fields are written in the order TLC keeps a record's fields in, so
\* that a command value shared by the workers is never reordered in place.
Cmd(op, a, b, c) == [a |-> a, b |-> b, op |-> op, c |-> c]
Reset == Cmd("Reset", 0, 0, 0)
PenUp == Cmd("PenUp", 0, 0, 0)
PenDown == Cmd("PenDown", 0, 0, 0)
Turn(deg) == Cmd("Turn", deg, 0, 0)
Move(unit) == Cmd("Move", unit, 0, 0)
Direction(deg) == Cmd("Direction", deg, 0, 0)
PushLoc == Cmd("PushLoc", 0, 0, 0)
PopLoc == Cmd("PopLoc", 0, 0, 0)
PushRot == Cmd("PushRot", 0, 0, 0)
PopRot == Cmd("PopRot", 0, 0, 0)
Go(x, y) == Cmd("Go", x, y, 0)
GoX(x) == Cmd("GoX", x, 0, 0)
GoY(y) == Cmd("GoY", y, 0, 0)
PenWidth(w) == Cmd("PenWidth", w, 0, 0)
PenColor(r, g, b) == Cmd("PenColor", r, g, b)

\* Arguments the programs are drawn from.
TurnArgs == {90, -450}
DirectionArgs == {-90}
MoveArgs == {5 * Unit, 10 * Unit}
GoArgs == {<<2 * Unit, 3 * Unit>>}
GoXArgs == {(0 - 1) * Unit}
GoYArgs == {(0 - 2) * Unit}
PenWidthArgs == {0}
PenColorArgs == {<<255, 0, 0>>}

\* Arguments of the programs that only draw.
DrawMoveArgs == {0, 10 * Unit}
DrawPenColorArgs == {<<255, 0, 0>>, <<0, 0, 0>>}

\* Pen widths of the programs that vary the pen width: zero, negative, below
\* the hairline width and above it.
WidthPenWidthArgs == {0, (0 - 1) * Unit, 100, 2 * Unit}

\* ------------------------------------------------------------ interpreter
\* id returning the counter as it was before the increment.
NextIdPost(b) == <<[b EXCEPT !.id_counter = @ + 1], b.id_counter>>

\* BuiltTurtle::id
NextId(b) == <<[b EXCEPT !.id_counter = @ + 1], b.id_counter + 1>>

\* update_bounds that starts the bounds afresh at the point.
UpdateBoundsFromPoint(b, x, y) ==
    LET sb == RectNew(x, y, 0, 0)
    IN  [b EXCEPT !.state.bounds = sb,
                  !.scene.bounds = sb]

\* BuiltTurtle::update_bounds
UpdateBounds(b, x, y) ==
    LET sb == UnionPoint(b.state.bounds, x, y)
    IN  [b EXCEPT !.state.bounds = sb,
                  !.scene.bounds = UnionRect(b.scene.bounds, sb)]

\* line_to with the outline's bounds replacing the scene's instead of being
\* united with them.
LineToReplaceBounds(b, x1, y1, x2, y2) ==
    LET pp == PushPaint(b.scene, PaintFromPencolor(b.state.pen_color))
        style == pp[2]
        stroke_width == Max(b.state.pen_width, HAIRLINE_STROKE_WIDTH)
        outline == StrokeOutline(x1, y1, x2, y2, stroke_width)
        b1 == [b EXCEPT !.scene = [pp[1] EXCEPT !.bounds = outline.bounds]]
        idr == NextId(b1)
        obj == [outline |-> outline, paint |-> style, name |-> ToDigits(idr[2]),
                kind |-> "Stroke"]
    IN  [idr[1] EXCEPT !.scene.objects = Append(@, obj)]

\* line_to taking the smaller of pen width and hairline width.
LineToMinWidth(b, x1, y1, x2, y2) ==
    LET pp == PushPaint(b.scene, PaintFromPencolor(b.state.pen_color))
        style == pp[2]
        stroke_width == Min(b.state.pen_width, HAIRLINE_STROKE_WIDTH)
        outline == StrokeOutline(x1, y1, x2, y2, stroke_width)
        b1 == [b EXCEPT !.scene = [pp[1] EXCEPT !.bounds = UnionRect(@, outline.bounds)]]
        idr == NextId(b1)
        obj == [outline |-> outline, paint |-> style, name |-> ToDigits(idr[2]),
                kind |-> "Stroke"]
    IN  [idr[1] EXCEPT !.scene.objects = Append(@, obj)]

\* line_to pushing its paint onto the list without looking for it there.
LineToNoDedup(b, x1, y1, x2, y2) ==
    LET paint == PaintFromPencolor(b.state.pen_color)
        style == Len(b.scene.paints)
        stroke_width == Max(b.state.pen_width, HAIRLINE_STROKE_WIDTH)
        outline == StrokeOutline(x1, y1, x2, y2, stroke_width)
        b1 == [b EXCEPT !.scene.paints = Append(@, paint),
                        !.scene.bounds = UnionRect(@, outline.bounds)]
        idr == NextId(b1)
        obj == [outline |-> outline, paint |-> style, name |-> ToDigits(idr[2]),
                kind |-> "Stroke"]
    IN  [idr[1] EXCEPT !.scene.objects = Append(@, obj)]

\* line_to putting a new paint at the head of the list.
LineToPrependPaint(b, x1, y1, x2, y2) ==
    LET paint == PaintFromPencolor(b.state.pen_color)
        known == \E i \in 1..Len(b.scene.paints) : b.scene.paints[i] = paint
        style == IF known THEN PaintIndex(b.scene.paints, paint) ELSE 0
        stroke_width == Max(b.state.pen_width, HAIRLINE_STROKE_WIDTH)
        outline == StrokeOutline(x1, y1, x2, y2, stroke_width)
        b1 == [b EXCEPT !.scene.paints = IF known THEN @ ELSE <<paint>> \o @,
                        !.scene.bounds = UnionRect(@, outline.bounds)]
        idr == NextId(b1)
        obj == [outline |-> outline, paint |-> style, name |-> ToDigits(idr[2]),
                kind |-> "Stroke"]
    IN  [idr[1] EXCEPT !.scene.objects = Append(@, obj)]

\* BuiltTurtle::line_to
LineTo(b, x1, y1, x2, y2) ==
    LET pp == PushPaint(b.scene, PaintFromPencolor(b.state.pen_color))
        style == pp[2]
        stroke_width == Max(b.state.pen_width, HAIRLINE_STROKE_WIDTH)
        outline == StrokeOutline(x1, y1, x2, y2, stroke_width)
        b1 == [b EXCEPT !.scene = [pp[1] EXCEPT !.bounds = UnionRect(@, outline.bounds)]]
        idr == NextId(b1)
        obj == [outline |-> outline, paint |-> style, name |-> ToDigits(idr[2]),
                kind |-> "Stroke"]
    IN  [idr[1] EXCEPT !.scene.objects = Append(@, obj)]

\* Normalize with a single remainder, after the "+ 360".
NormalizeOnce(deg) == RustRem(deg + 360, 360)

\* Normalize without the "+ 360" between the two remainders.
NormalizeNoAdd(deg) == RustRem(RustRem(deg, 360), 360)

\* The heading normalisation of Turn and Direction.
Normalize(deg) == RustRem(RustRem(deg, 360) + 360, 360)

\* Reset that keeps the Scene.
CmdResetKeepScene(b) ==
    [b EXCEPT !.state = TurtleStateNew, !.result_flags = FlagsEmpty]

\* Reset that leaves the pen down.
CmdResetPenDown(b) ==
    [b EXCEPT !.state = [TurtleStateNew EXCEPT !.pen_down = TRUE],
              !.scene = SceneNew, !.result_flags = FlagsEmpty]

CmdReset(b) ==
    [b EXCEPT !.state = TurtleStateNew, !.scene = SceneNew, !.result_flags = FlagsEmpty]

CmdPenUp(b) == [b EXCEPT !.state.pen_down = FALSE]

CmdPenDown(b) == [b EXCEPT !.state.pen_down = TRUE]

CmdTurn(b, deg) == [b EXCEPT !.state.direction = Normalize(b.state.direction + deg)]

CmdDirection(b, deg) == [b EXCEPT !.state.direction = Normalize(deg)]

\* Move with sine and cosine exchanged.
CmdMoveSwapped(b, unit) ==
    LET sc == SinCos(b.state.direction)
        to_x == b.state.pos_x + unit * sc[1]
        to_y == b.state.pos_y + unit * sc[2]
        b1 == IF b.state.pen_down
              THEN UpdateBounds(LineTo(b, b.state.pos_x, b.state.pos_y, to_x, to_y), to_x, to_y)
              ELSE b
    IN  [b1 EXCEPT !.state.pos_x = to_x, !.state.pos_y = to_y]

\* Move that draws nothing for a distance of 0.
CmdMoveSkipZero(b, unit) ==
    LET sc == SinCos(b.state.direction)
        to_x == b.state.pos_x + unit * sc[2]
        to_y == b.state.pos_y + unit * sc[1]
        b1 == IF b.state.pen_down /\ unit # 0
              THEN UpdateBounds(LineTo(b, b.state.pos_x, b.state.pos_y, to_x, to_y), to_x, to_y)
              ELSE b
    IN  [b1 EXCEPT !.state.pos_x = to_x, !.state.pos_y = to_y]

CmdMove(b, unit) ==
    LET sc == SinCos(b.state.direction)
        to_x == b.state.pos_x + unit * sc[2]
        to_y == b.state.pos_y + unit * sc[1]
        b1 == IF b.state.pen_down
              THEN UpdateBounds(LineTo(b, b.state.pos_x, b.state.pos_y, to_x, to_y), to_x, to_y)
              ELSE b
    IN  [b1 EXCEPT !.state.pos_x = to_x, !.state.pos_y = to_y]

CmdPushLoc(b) ==
    [b EXCEPT !.state.positions = Append(@, <<b.state.pos_x, b.state.pos_y>>)]

\* PopLoc taking the oldest saved position instead of the newest.
CmdPopLocFifo(b) ==
    LET ps == b.state.positions
    IN  IF Len(ps) > 0
        THEN [b EXCEPT !.state.positions = SubSeq(ps, 2, Len(ps)),
                       !.state.pos_x = ps[1][1],
                       !.state.pos_y = ps[1][2]]
        ELSE b

\* Vec::pop: Some(last) shortens the stack, None leaves everything as it is.
CmdPopLoc(b) ==
    LET ps == b.state.positions
    IN  IF Len(ps) > 0
        THEN [b EXCEPT !.state.positions = SubSeq(ps, 1, Len(ps) - 1),
                       !.state.pos_x = ps[Len(ps)][1],
                       !.state.pos_y = ps[Len(ps)][2]]
        ELSE b

CmdPushRot(b) == [b EXCEPT !.state.directions = Append(@, b.state.direction)]

\* PopRot taking the oldest saved heading instead of the newest.
CmdPopRotFifo(b) ==
    LET ds == b.state.directions
    IN  IF Len(ds) > 0
        THEN [b EXCEPT !.state.directions = SubSeq(ds, 2, Len(ds)),
                       !.state.direction = ds[1]]
        ELSE b

\* PopRot that takes an entry off the location stack as well.
CmdPopRotBothStacks(b) ==
    LET ds == b.state.directions
        ps == b.state.positions
    IN  IF Len(ds) > 0
        THEN [b EXCEPT !.state.directions = SubSeq(ds, 1, Len(ds) - 1),
                       !.state.direction = ds[Len(ds)],
                       !.state.positions = SubSeq(ps, 1, Len(ps) - 1)]
        ELSE b

CmdPopRot(b) ==
    LET ds == b.state.directions
    IN  IF Len(ds) > 0
        THEN [b EXCEPT !.state.directions = SubSeq(ds, 1, Len(ds) - 1),
                       !.state.direction = ds[Len(ds)]]
        ELSE b

\* Go that leaves the bounds alone.
CmdGoNoBounds(b, x, y) == [b EXCEPT !.state.pos_x = x, !.state.pos_y = y]

CmdGo(b, x, y) == UpdateBounds([b EXCEPT !.state.pos_x = x, !.state.pos_y = y], x, y)

\* GoX extending the bounds over the position it leaves.
CmdGoXStaleBounds(b, x) ==
    UpdateBounds([b EXCEPT !.state.pos_x = x], b.state.pos_x, b.state.pos_y)

CmdGoX(b, x) == UpdateBounds([b EXCEPT !.state.pos_x = x], x, b.state.pos_y)

CmdGoY(b, y) == UpdateBounds([b EXCEPT !.state.pos_y = y], b.state.pos_x, y)

\* PenWidth storing at least the hairline width.
CmdPenWidthClamped(b, w) ==
    [b EXCEPT !.state.pen_width = Max(w, HAIRLINE_STROKE_WIDTH)]

CmdPenWidth(b, w) == [b EXCEPT !.state.pen_width = w]

\* PenColor that recolours the paints already registered.
CmdPenColorRecolours(b, r, g, bl) ==
    [b EXCEPT !.state.pen_color = <<r, g, bl>>,
              !.scene.paints = [i \in 1..Len(@) |-> PaintFromPencolor(<<r, g, bl>>)]]

\* PenColor that registers its colour as a paint.
CmdPenColorPushesPaint(b, r, g, bl) ==
    [b EXCEPT !.state.pen_color = <<r, g, bl>>,
              !.scene = PushPaint(@, PaintFromPencolor(<<r, g, bl>>))[1]]

CmdPenColor(b, r, g, bl) == [b EXCEPT !.state.pen_color = <<r, g, bl>>]

\* The match of process_turtle's loop body.
ProcessCommand(b, cmd) ==
    CASE cmd.op = "Reset" -> CmdReset(b)
      [] cmd.op = "PenUp" -> CmdPenUp(b)
      [] cmd.op = "PenDown" -> CmdPenDown(b)
      [] cmd.op = "Turn" -> CmdTurn(b, cmd.a)
      [] cmd.op = "Direction" -> CmdDirection(b, cmd.a)
      [] cmd.op = "Move" -> CmdMove(b, cmd.a)
      [] cmd.op = "PushLoc" -> CmdPushLoc(b)
      [] cmd.op = "PopLoc" -> CmdPopLoc(b)
      [] cmd.op = "PushRot" -> CmdPushRot(b)
      [] cmd.op = "PopRot" -> CmdPopRot(b)
      [] cmd.op = "Go" -> CmdGo(b, cmd.a, cmd.b)
      [] cmd.op = "GoX" -> CmdGoX(b, cmd.a)
      [] cmd.op = "GoY" -> CmdGoY(b, cmd.a)
      [] cmd.op = "PenWidth" -> CmdPenWidth(b, cmd.a)
      [] cmd.op = "PenColor" -> CmdPenColor(b, cmd.a, cmd.b, cmd.c)

\* The lines the loop body writes to stderr for one command (eprintln!).
Eprintln(b, cmd) ==
    IF cmd.op = "PopLoc" /\ Len(b.state.positions) = 0
    THEN <<"poploc on empty stack">>
    ELSE IF cmd.op = "PopRot" /\ Len(b.state.directions) = 0
    THEN <<"poprot on empty stack">>
    ELSE <<>>

\* The statement after the loop of process_turtle.
SetViewBox(b) == [b EXCEPT !.scene.view_box = b.scene.bounds]

\* process_turtle over a whole program, without the final view box.
RECURSIVE RunLoop(_, _)
RunLoop(b, prog) ==
    IF Len(prog) = 0 THEN b ELSE RunLoop(ProcessCommand(b, Head(prog)), Tail(prog))

\* ------------------------------------------------------------------ state
VARIABLES
    n,       \* length of the program t handed to from_ast
    t,       \* the commands of the program the loop has taken so far
    built,   \* the BuiltTurtle under construction
    stderr,  \* lines written to the process's stderr
    pc,      \* "loop" inside process_turtle, "done" once from_ast returned
    fmt,     \* a call of Display::fmt on a BuildResultFlags value
    parse,   \* a call of CommandParser::parse or TopLevelParser::parse
    demo     \* the demo app: DemoApp's main loop, the scene thread, the channels

vars == <<n, t, built, stderr, pc, fmt, parse, demo>>

\* No call of Display::fmt is under way.
FmtIdle == [pc |-> "idle", self |-> FlagsEmpty, bit |-> 0, first |-> TRUE,
            prefix |-> "", out |-> ""]

\* No demo app is running.
DemoIdle == [pc |-> "idle"]

\* No parser call is under way.
ParseIdle == [pc |-> "idle", entry |-> "", text |-> <<>>, toks |-> <<>>,
              pos |-> 1, out |-> <<>>]

Init ==
    /\ n \in 0..MaxLen
    /\ t = <<>>
    /\ built = BuiltNew
    /\ stderr = <<>>
    /\ pc = "loop"
    /\ fmt = FmtIdle
    /\ parse = ParseIdle
    /\ demo = DemoIdle

\* Interpret with a pop on an empty stack ending the run.
InterpretAbortOnUnderflow(cmd) ==
    /\ pc = "loop"
    /\ Len(t) < n
    /\ t' = Append(t, cmd)
    /\ built' = ProcessCommand(built, cmd)
    /\ stderr' = stderr \o Eprintln(built, cmd)
    /\ pc' = IF Eprintln(built, cmd) = <<>> THEN "loop" ELSE "done"
    /\ UNCHANGED <<n, fmt, parse, demo>>

\* One iteration of `for cmd in t`.
Interpret(cmd) ==
    /\ pc = "loop"
    /\ Len(t) < n
    /\ t' = Append(t, cmd)
    /\ built' = ProcessCommand(built, cmd)
    /\ stderr' = stderr \o Eprintln(built, cmd)
    /\ UNCHANGED <<n, pc, fmt, parse, demo>>

DoReset == Interpret(Reset)
DoPenUp == Interpret(PenUp)
DoPenDown == Interpret(PenDown)
DoTurn == \E deg \in TurnArgs : Interpret(Turn(deg))
DoDirection == \E deg \in DirectionArgs : Interpret(Direction(deg))
DoMove == \E unit \in MoveArgs : Interpret(Move(unit))
DoPushLoc == Interpret(PushLoc)
DoPopLoc == Interpret(PopLoc)
DoPushRot == Interpret(PushRot)
DoPopRot == Interpret(PopRot)
DoGo == \E p \in GoArgs : Interpret(Go(p[1], p[2]))
DoGoX == \E x \in GoXArgs : Interpret(GoX(x))
DoGoY == \E y \in GoYArgs : Interpret(GoY(y))
DoPenWidth == \E w \in PenWidthArgs : Interpret(PenWidth(w))
DoPenColor == \E c \in PenColorArgs : Interpret(PenColor(c[1], c[2], c[3]))

\* The loop is exhausted: set the view box and return the BuiltTurtle.
Finish ==
    /\ pc = "loop"
    /\ Len(t) = n
    /\ built' = SetViewBox(built)
    /\ pc' = "done"
    /\ UNCHANGED <<n, t, stderr, fmt, parse, demo>>

Next ==
    \/ DoReset \/ DoPenUp \/ DoPenDown \/ DoTurn \/ DoDirection \/ DoMove
    \/ DoPushLoc \/ DoPopLoc \/ DoPushRot \/ DoPopRot
    \/ DoGo \/ DoGoX \/ DoGoY \/ DoPenWidth \/ DoPenColor
    \/ Finish

Spec == Init /\ [][Next]_vars

\* The loop has no suspension point: it runs to the end of the program.
FairInit == Init /\ n <= MaxLiveLen
FairSpec == FairInit /\ [][Next]_vars /\ WF_vars(Next)

\* Runs of programs that only draw: Reset, PenUp, PenDown, Move and PenColor,
\* up to MaxDrawLen commands.
DrawInit ==
    /\ n \in 0..MaxDrawLen
    /\ t = <<>>
    /\ built = BuiltNew
    /\ stderr = <<>>
    /\ pc = "loop"
    /\ fmt = FmtIdle
    /\ parse = ParseIdle
    /\ demo = DemoIdle

DrawMove == \E unit \in DrawMoveArgs : Interpret(Move(unit))
DrawPenColor == \E c \in DrawPenColorArgs : Interpret(PenColor(c[1], c[2], c[3]))

DrawNext ==
    \/ DoReset \/ DoPenUp \/ DoPenDown \/ DrawMove \/ DrawPenColor
    \/ Finish

DrawSpec == DrawInit /\ [][DrawNext]_vars

\* Runs of programs that vary the pen width: Reset, PenDown, Move and
\* PenWidth, up to MaxWidthLen commands.
WidthInit ==
    /\ n \in 0..MaxWidthLen
    /\ t = <<>>
    /\ built = BuiltNew
    /\ stderr = <<>>
    /\ pc = "loop"
    /\ fmt = FmtIdle
    /\ parse = ParseIdle
    /\ demo = DemoIdle

WidthPenWidth == \E w \in WidthPenWidthArgs : Interpret(PenWidth(w))

WidthNext == DoReset \/ DoPenDown \/ DoMove \/ WidthPenWidth \/ Finish

WidthSpec == WidthInit /\ [][WidthNext]_vars

\* ---------------------------------------------------------------- Display
\* What the formatter holds when fmt is called: the text the caller's format
\* string produced before the flags.
FmtPrefixes == {"", "flags: ", "("}

\* Every value of the flag set: the subsets of the three flags.
AllFlags == 0..(ERR_UNHANDLED_COMMAND + ERR_POPLOC_EMPTY_STACK + ERR_POPROT_EMPTY_STACK)

\* A caller formats some BuildResultFlags value; no interpreter run is involved.
DisplayInit ==
    /\ n = 0
    /\ t = <<>>
    /\ built = BuiltNew
    /\ stderr = <<>>
    /\ pc = "loop"
    /\ \E flags \in AllFlags, prefix \in FmtPrefixes :
         fmt = [pc |-> "start", self |-> flags, bit |-> 0, first |-> TRUE,
                prefix |-> prefix, out |-> prefix]
    /\ parse = ParseIdle
    /\ demo = DemoIdle

\* The flag of NAMES[bit] is set in self.bits().
BitSet(flags, bit) == (flags \div (2 ^ bit)) % 2 = 1

\* if self.is_empty() { return Ok(()) }
FmtEmpty ==
    /\ fmt.pc = "start"
    /\ fmt.self = FlagsEmpty
    /\ fmt' = [fmt EXCEPT !.pc = "done"]
    /\ UNCHANGED <<n, t, built, stderr, pc, parse, demo>>

\* let mut first = true; and the loop over NAMES is entered.
FmtEnter ==
    /\ fmt.pc = "start"
    /\ fmt.self # FlagsEmpty
    /\ fmt' = [fmt EXCEPT !.pc = "loop", !.bit = 0, !.first = TRUE]
    /\ UNCHANGED <<n, t, built, stderr, pc, parse, demo>>

\* An iteration for a flag that is not set: continue.
FmtSkip ==
    /\ fmt.pc = "loop"
    /\ fmt.bit < Len(NAMES)
    /\ ~BitSet(fmt.self, fmt.bit)
    /\ fmt' = [fmt EXCEPT !.bit = @ + 1]
    /\ UNCHANGED <<n, t, built, stderr, pc, parse, demo>>

\* An iteration for a set flag that never clears first.
FmtWriteKeepsFirst ==
    /\ fmt.pc = "loop"
    /\ fmt.bit < Len(NAMES)
    /\ BitSet(fmt.self, fmt.bit)
    /\ fmt' = [fmt EXCEPT !.bit = @ + 1,
                          !.out = (IF fmt.first THEN @ ELSE @ \o ", ")
                                      \o NAMES[fmt.bit + 1]]
    /\ UNCHANGED <<n, t, built, stderr, pc, parse, demo>>

\* An iteration for a set flag: the separator unless first, then the name.
FmtWrite ==
    /\ fmt.pc = "loop"
    /\ fmt.bit < Len(NAMES)
    /\ BitSet(fmt.self, fmt.bit)
    /\ fmt' = [fmt EXCEPT !.bit = @ + 1, !.first = FALSE,
                          !.out = (IF fmt.first THEN @ ELSE @ \o ", ")
                                      \o NAMES[fmt.bit + 1]]
    /\ UNCHANGED <<n, t, built, stderr, pc, parse, demo>>

\* A write_str of the iteration fails and `?` returns the error: before the
\* separator or the name of a first flag, or after the separator.
FmtFail ==
    /\ fmt.pc = "loop"
    /\ fmt.bit < Len(NAMES)
    /\ BitSet(fmt.self, fmt.bit)
    /\ \/ fmt' = [fmt EXCEPT !.pc = "err"]
       \/ /\ ~fmt.first
          /\ fmt' = [fmt EXCEPT !.pc = "err", !.out = @ \o ", "]
    /\ UNCHANGED <<n, t, built, stderr, pc, parse, demo>>

\* The loop is over: return Ok(()).
FmtReturn ==
    /\ fmt.pc = "loop"
    /\ fmt.bit = Len(NAMES)
    /\ fmt' = [fmt EXCEPT !.pc = "done"]
    /\ UNCHANGED <<n, t, built, stderr, pc, parse, demo>>

DisplayNext == FmtEmpty \/ FmtEnter \/ FmtSkip \/ FmtWrite \/ FmtFail \/ FmtReturn

DisplaySpec == DisplayInit /\ [][DisplayNext]_vars

\* ----------------------------------------------------------------- parser
\* The grammar LALRPOP compiles into the module `turtle` is modelled from
\* the specification's description of it and from the parser's tests.
\* A text is a sequence of lexemes and blanks; a lexeme is a keyword, a
\* numeral, a comma or a word that is no keyword.
Blank == " "
Comma == ","
Numerals == {"12.3", "255"}
UnknownWords == {"bleh"}
ZeroArgKeywords == {"penup", "pendown", "pushloc", "poploc", "pushrot", "poprot"}
OneNumberKeywords == {"gox", "goy", "penwidth"}
TurnKeywords == {"turnleft", "turnright"}
Keywords ==
    ZeroArgKeywords \cup OneNumberKeywords \cup TurnKeywords \cup {"go", "pencolor"}
Lexemes == Keywords \cup Numerals \cup UnknownWords \cup {Comma}

\* The lexemes a text continues with after its first one.
RestLexemes == {"12.3", Comma, "turnright", "turnleft"}

\* The parser entry points: turtle::CommandParser and turtle::TopLevelParser.
Entries == {"Command", "TopLevel"}

\* How a text is spaced: "tight" has one blank between two lexemes that are
\* not commas and none around a comma; "wide" has two blanks between any two
\* lexemes and one before the first and after the last.
Layouts == {"tight", "wide"}

RECURSIVE Layout(_, _)
Layout(lexemes, style) ==
    IF lexemes = <<>> THEN (IF style = "wide" THEN <<Blank>> ELSE <<>>)
    ELSE LET rest == Layout(Tail(lexemes), style)
             h == Head(lexemes)
         IN  IF style = "wide" THEN <<Blank, h, Blank>> \o rest
             ELSE IF Len(lexemes) = 1 THEN <<h>>
             ELSE IF h = Comma \/ lexemes[2] = Comma THEN <<h>> \o rest
             ELSE <<h, Blank>> \o rest

\* The lexer skips white space between tokens.
IsToken(x) == x # Blank

\* A lexer that makes a token of every blank.
LexKeepBlanks(text) == text

Lex(text) == SelectSeq(text, IsToken)

\* The token at position i, or "$" at the end of the input.
Tok(toks, i) == IF i <= Len(toks) THEN toks[i] ELSE "$"
IsNum(x) == x \in Numerals

\* The sequences of 0..k lexemes over a set.
RECURSIVE SeqsUpTo(_, _)
SeqsUpTo(S, k) ==
    IF k = 0 THEN {<<>>}
    ELSE LET shorter == SeqsUpTo(S, k - 1)
         IN  shorter \cup {Append(s, x) : s \in {q \in shorter : Len(q) = k - 1}, x \in S}

\* The texts parsed: a first lexeme and up to MaxTokens - 1 more.
Texts ==
    {Layout(<<first>> \o rest, style) :
        first \in Lexemes, rest \in SeqsUpTo(RestLexemes, MaxTokens - 1),
        style \in Layouts}

ParseInit ==
    /\ n = 0
    /\ t = <<>>
    /\ built = BuiltNew
    /\ stderr = <<>>
    /\ pc = "loop"
    /\ fmt = FmtIdle
    /\ \E entry \in Entries, text \in Texts :
         parse = [pc |-> "lex", entry |-> entry, text |-> text, toks |-> <<>>,
                  pos |-> 1, out |-> <<>>]
    /\ demo = DemoIdle

\* The parser reduces a command of k tokens starting at pos.
Reduce(k) ==
    [parse EXCEPT !.pc = "reduced", !.pos = @ + k,
                  !.out = Append(@, [kw |-> parse.toks[parse.pos],
                                     args |-> SubSeq(parse.toks, parse.pos + 1,
                                                     parse.pos + k - 1)])]

\* The tokens at pos .. pos + k - 1 are numerals separated as `shape` says:
\* shape is a sequence of "n" and ",".
ArgsMatch(shape) ==
    \A i \in 1..Len(shape) :
        LET x == Tok(parse.toks, parse.pos + i)
        IN  IF shape[i] = "n" THEN IsNum(x) ELSE x = Comma

\* The text is tokenized.
ParseLex ==
    /\ parse.pc = "lex"
    /\ parse' = [parse EXCEPT !.pc = "command", !.toks = Lex(parse.text)]
    /\ UNCHANGED <<n, t, built, stderr, pc, fmt, demo>>

\* A keyword without arguments.
ParseZeroArg ==
    /\ parse.pc = "command"
    /\ Tok(parse.toks, parse.pos) \in ZeroArgKeywords
    /\ parse' = Reduce(1)
    /\ UNCHANGED <<n, t, built, stderr, pc, fmt, demo>>

\* gox, goy and penwidth take one number.
ParseOneNumber ==
    /\ parse.pc = "command"
    /\ Tok(parse.toks, parse.pos) \in OneNumberKeywords
    /\ ArgsMatch(<<"n">>)
    /\ parse' = Reduce(2)
    /\ UNCHANGED <<n, t, built, stderr, pc, fmt, demo>>

\* go takes two numbers.
ParseGo ==
    /\ parse.pc = "command"
    /\ Tok(parse.toks, parse.pos) = "go"
    /\ ArgsMatch(<<"n", "n">>)
    /\ parse' = Reduce(3)
    /\ UNCHANGED <<n, t, built, stderr, pc, fmt, demo>>

\* pencolor takes three numbers separated by commas.
ParsePenColor ==
    /\ parse.pc = "command"
    /\ Tok(parse.toks, parse.pos) = "pencolor"
    /\ ArgsMatch(<<"n", ",", "n", ",", "n">>)
    /\ parse' = Reduce(6)
    /\ UNCHANGED <<n, t, built, stderr, pc, fmt, demo>>

\* A turn keyword that always takes the token after it as its number.
ParseTurnNeedsNumber ==
    /\ parse.pc = "command"
    /\ Tok(parse.toks, parse.pos) \in TurnKeywords
    /\ ArgsMatch(<<"n">>)
    /\ parse' = Reduce(2)
    /\ UNCHANGED <<n, t, built, stderr, pc, fmt, demo>>

\* turnleft and turnright take a number when one follows, none otherwise.
ParseTurn ==
    /\ parse.pc = "command"
    /\ Tok(parse.toks, parse.pos) \in TurnKeywords
    /\ parse' = Reduce(IF ArgsMatch(<<"n">>) THEN 2 ELSE 1)
    /\ UNCHANGED <<n, t, built, stderr, pc, fmt, demo>>

\* Some rule of Command applies at pos.
CommandApplies ==
    \/ ENABLED ParseZeroArg \/ ENABLED ParseOneNumber \/ ENABLED ParseGo
    \/ ENABLED ParsePenColor \/ ENABLED ParseTurn

\* TopLevel is a sequence of commands: after a command, the next one.
ParseNextCommand ==
    /\ parse.pc = "reduced"
    /\ parse.entry = "TopLevel"
    /\ parse.pos <= Len(parse.toks)
    /\ parse' = [parse EXCEPT !.pc = "command"]
    /\ UNCHANGED <<n, t, built, stderr, pc, fmt, demo>>

\* The input is exhausted: Ok with the command (Command) or commands
\* (TopLevel; an empty program has none).
ParseAccept ==
    /\ \/ parse.pc = "reduced"
       \/ parse.pc = "command" /\ parse.entry = "TopLevel"
    /\ parse.pos > Len(parse.toks)
    /\ parse' = [parse EXCEPT !.pc = "ok"]
    /\ UNCHANGED <<n, t, built, stderr, pc, fmt, demo>>

\* A parser that steps over a token no rule applies to.
ParseSkipToken ==
    /\ \/ parse.pc = "command" /\ ~CommandApplies /\ parse.pos <= Len(parse.toks)
       \/ parse.pc = "reduced" /\ parse.entry = "Command"
                               /\ parse.pos <= Len(parse.toks)
    /\ parse' = [parse EXCEPT !.pos = @ + 1]
    /\ UNCHANGED <<n, t, built, stderr, pc, fmt, demo>>

\* No rule applies to the token at pos, or a token follows the one command
\* of Command: Err, and no command is returned.
ParseError ==
    /\ \/ parse.pc = "command" /\ ~CommandApplies
                               /\ ~(parse.entry = "TopLevel" /\ parse.pos > Len(parse.toks))
       \/ parse.pc = "reduced" /\ parse.entry = "Command"
                               /\ parse.pos <= Len(parse.toks)
    /\ parse' = [parse EXCEPT !.pc = "err", !.out = <<>>]
    /\ UNCHANGED <<n, t, built, stderr, pc, fmt, demo>>

ParseNext ==
    \/ ParseLex \/ ParseZeroArg \/ ParseOneNumber \/ ParseGo \/ ParsePenColor
    \/ ParseTurn \/ ParseNextCommand \/ ParseAccept \/ ParseError

ParseSpec == ParseInit /\ [][ParseNext]_vars

\* ------------------------------------------------------------------- demo
\* DemoApp (demo/common/src/lib.rs): the main loop of DemoApp::run, the
\* scene thread of SceneThread::run and the two mpsc channels between them.
\* The scene, the drawable size and the camera are version numbers: a change
\* makes the next number. The ui module is not part of the sources; what
\* DemoUI::update answers to a UI event is any of its actions.

\* The SDL events told apart by handle_events; "Other" is any event of the
\* `_ => continue` arm. MouseMotionLeft is a MouseMotion with the left button
\* down, MouseMotion one without.
DemoEvents ==
    {"Quit", "SizeChanged", "MouseButtonDown", "MouseMotion", "MouseMotionLeft",
     "MultiGesture", "KeyDownW", "KeyDownS", "KeyDownA", "KeyDownD",
     "KeyUpWS", "KeyUpAD", "Other"}

\* UIAction
UIActions == {"None", "OpenFile", "ZoomIn", "ZoomOut", "Rotate"}

\* MainToSceneMsg; a Build carries the camera it was sent with (its
\* render_transform) and, as history, the scene the main loop had loaded
\* last when it sent it.
LoadSceneMsg(scene) == [kind |-> "LoadScene", a |-> scene, b |-> 0]
SetDrawableSizeMsg(size) == [kind |-> "SetDrawableSize", a |-> size, b |-> 0]
BuildMsg(cam, loaded) == [kind |-> "Build", a |-> cam, b |-> loaded]

\* SceneToMainMsg::Render: the scene and view box the scene thread held and
\* the camera of the Build; `loaded` is the history field of the Build.
RenderMsg(scene, size, cam, loaded) ==
    [scene |-> scene, size |-> size, cam |-> cam, loaded |-> loaded]

\* Nothing was drawn yet.
NoFrame == RenderMsg(0 - 1, 0 - 1, 0 - 1, 0 - 1)

\* The versions of scene, drawable size and camera the app holds.
Now(d) == [scene |-> d.loaded, size |-> d.size, cam |-> d.cam]

\* DemoApp::new: dirty, frame 0, the scene thread started on the base scene
\* and update_drawable_size already sent.
DemoNew(threed) ==
    [pc |-> "build", threed |-> threed, frame_counter |-> 0, dirty |-> TRUE,
     exit |-> FALSE, mouselook_enabled |-> FALSE, events |-> <<>>,
     ui_event |-> "None", render_msg |-> NoFrame,
     cam |-> 0, velocity |-> <<0, 0>>, size |-> 0, loaded |-> 0,
     to_scene |-> <<SetDrawableSizeMsg(0)>>, to_main |-> <<>>,
     thread_scene |-> 0, thread_size |-> 0 - 1,
     drawn |-> NoFrame, mark |-> [scene |-> 0, size |-> 0, cam |-> 0],
     delivered |-> 0, sent |-> 0, answered |-> 0, received |-> 0]

DemoInit ==
    /\ n = 0
    /\ t = <<>>
    /\ built = BuiltNew
    /\ stderr = <<>>
    /\ pc = "loop"
    /\ fmt = FmtIdle
    /\ parse = ParseIdle
    /\ \E threed \in BOOLEAN : demo = DemoNew(threed)

\* The camera changed while the app is marked dirty: the state the next
\* frames are to show.
Marked(d) == [d EXCEPT !.mark = Now(d)]

\* update_drawable_size
UpdateDrawableSize(d) == [d EXCEPT !.to_scene = Append(@, SetDrawableSizeMsg(d.size))]

\* One arm of the match in handle_events.
HandleEvent(d, e) ==
    CASE e = "Quit" -> [d EXCEPT !.exit = TRUE, !.dirty = TRUE]
      [] e = "SizeChanged" ->
            Marked([UpdateDrawableSize([d EXCEPT !.size = @ + 1]) EXCEPT !.dirty = TRUE])
      [] e = "MouseButtonDown" -> [d EXCEPT !.ui_event = "MouseDown"]
      [] e \in {"MouseMotion", "MouseMotionLeft"} ->
            IF d.mouselook_enabled
            THEN IF d.threed
                 THEN Marked([d EXCEPT !.cam = @ + 1, !.dirty = TRUE])
                 ELSE d
            ELSE IF e = "MouseMotionLeft"
                 THEN [d EXCEPT !.ui_event = "MouseDragged", !.dirty = TRUE]
                 ELSE d
      [] e = "MultiGesture" -> IF d.threed THEN d ELSE [d EXCEPT !.cam = @ + 1]
      [] e = "KeyDownW" ->
            IF d.threed THEN [d EXCEPT !.velocity[2] = 0 - 1, !.dirty = TRUE] ELSE d
      [] e = "KeyDownS" ->
            IF d.threed THEN [d EXCEPT !.velocity[2] = 1, !.dirty = TRUE] ELSE d
      [] e = "KeyDownA" ->
            IF d.threed THEN [d EXCEPT !.velocity[1] = 0 - 1, !.dirty = TRUE] ELSE d
      [] e = "KeyDownD" ->
            IF d.threed THEN [d EXCEPT !.velocity[1] = 1, !.dirty = TRUE] ELSE d
      [] e = "KeyUpWS" ->
            IF d.threed THEN [d EXCEPT !.velocity[2] = 0, !.dirty = TRUE] ELSE d
      [] e = "KeyUpAD" ->
            IF d.threed THEN [d EXCEPT !.velocity[1] = 0, !.dirty = TRUE] ELSE d
      [] OTHER -> d

\* for event in self.events.drain(..)
RECURSIVE Drain(_, _)
Drain(d, events) ==
    IF events = <<>> THEN d ELSE Drain(HandleEvent(d, Head(events)), Tail(events))

\* k copies of a message.
Copies(msg, k) == [i \in 1..k |-> msg]

\* build_scene that sends two Build messages in every frame.
BuildSceneAlwaysTwo ==
    /\ demo.pc = "build"
    /\ demo.frame_counter < MaxFrames
    /\ LET moving == demo.threed /\ demo.velocity # <<0, 0>>
           d1 == IF moving
                 THEN Marked([demo EXCEPT !.cam = @ + 1, !.dirty = TRUE])
                 ELSE demo
           count == 2
       IN  demo' = [d1 EXCEPT !.to_scene = @ \o Copies(BuildMsg(d1.cam, d1.loaded), count),
                              !.sent = @ + count,
                              !.dirty = IF count = 2 THEN TRUE ELSE @,
                              !.pc = "events"]
    /\ UNCHANGED <<n, t, built, stderr, pc, fmt, parse>>

\* DemoApp::build_scene: the 3D camera moves by its velocity; two Build
\* messages in the first frame, one in every other. frame_counter is a u32
\* that the frames drawn here, fewer than MaxFrames, keep far from its wrap.
BuildScene ==
    /\ demo.pc = "build"
    /\ demo.frame_counter < MaxFrames
    /\ LET moving == demo.threed /\ demo.velocity # <<0, 0>>
           d1 == IF moving
                 THEN Marked([demo EXCEPT !.cam = @ + 1, !.dirty = TRUE])
                 ELSE demo
           count == IF demo.frame_counter = 0 THEN 2 ELSE 1
       IN  demo' = [d1 EXCEPT !.to_scene = @ \o Copies(BuildMsg(d1.cam, d1.loaded), count),
                              !.sent = @ + count,
                              !.dirty = IF count = 2 THEN TRUE ELSE @,
                              !.pc = "events"]
    /\ UNCHANGED <<n, t, built, stderr, pc, fmt, parse>>

\* handle_events, `if !self.dirty`: wait for an event, or clear dirty.
HandleEventsEnter ==
    /\ demo.pc = "events"
    /\ demo' = IF demo.dirty
               THEN [demo EXCEPT !.dirty = FALSE, !.pc = "poll"]
               ELSE [demo EXCEPT !.pc = "wait_event"]
    /\ UNCHANGED <<n, t, built, stderr, pc, fmt, parse>>

\* sdl_event_pump.wait_event() returns: an event arrived.
WaitEvent ==
    /\ demo.pc = "wait_event"
    /\ demo.delivered < MaxEvents
    /\ \E e \in DemoEvents :
         demo' = [demo EXCEPT !.events = Append(@, e), !.delivered = @ + 1,
                              !.pc = "poll"]
    /\ UNCHANGED <<n, t, built, stderr, pc, fmt, parse>>

\* poll_iter yields a pending event.
PollEvent ==
    /\ demo.pc = "poll"
    /\ demo.delivered < MaxEvents
    /\ \E e \in DemoEvents :
         demo' = [demo EXCEPT !.events = Append(@, e), !.delivered = @ + 1]
    /\ UNCHANGED <<n, t, built, stderr, pc, fmt, parse>>

\* poll_iter is exhausted: the events are handled in order.
DrainEvents ==
    /\ demo.pc = "poll"
    /\ demo' = [Drain([demo EXCEPT !.ui_event = "None"], demo.events)
                  EXCEPT !.events = <<>>, !.pc = "recv"]
    /\ UNCHANGED <<n, t, built, stderr, pc, fmt, parse>>

\* self.scene_thread_proxy.receiver.recv(): blocks until a Render is there.
RecvRender ==
    /\ demo.pc = "recv"
    /\ demo.to_main # <<>>
    /\ demo' = [demo EXCEPT !.render_msg = Head(demo.to_main),
                            !.to_main = Tail(@),
                            !.received = @ + 1,
                            !.pc = "draw"]
    /\ UNCHANGED <<n, t, built, stderr, pc, fmt, parse>>

\* handle_ui_action
HandleUiAction(d, action) ==
    CASE action = "OpenFile" ->
            Marked([UpdateDrawableSize(
                       [d EXCEPT !.loaded = @ + 1,
                                 !.to_scene = Append(@, LoadSceneMsg(d.loaded + 1))])
                      EXCEPT !.dirty = TRUE])
      [] action \in {"ZoomIn", "ZoomOut"} ->
            IF d.threed THEN d ELSE Marked([d EXCEPT !.cam = @ + 1, !.dirty = TRUE])
      [] action = "Rotate" -> IF d.threed THEN d ELSE [d EXCEPT !.cam = @ + 1]
      [] OTHER -> d

\* The match on ui_event at the end of draw_scene.
AfterUi(d, ui_event) ==
    IF ui_event = "MouseDown" /\ d.threed
    THEN [d EXCEPT !.mouselook_enabled = ~@]
    ELSE IF ui_event = "MouseDragged" /\ ~d.threed
    THEN Marked([d EXCEPT !.cam = @ + 1])
    ELSE d

\* draw_scene: the frame received is drawn, the UI answers the UI event with
\* an action and may consume the event, the frame counter advances; then the
\* loop condition `!self.exit`.
DrawScene ==
    /\ demo.pc = "draw"
    /\ \E action \in UIActions, consumed \in BOOLEAN :
         /\ (demo.ui_event = "None") => (action = "None" /\ ~consumed)
         /\ LET d1 == [demo EXCEPT !.drawn = demo.render_msg,
                                   !.dirty = @ \/ demo.ui_event # "None"]
                d2 == HandleUiAction(d1, action)
                d3 == AfterUi(d2, IF consumed THEN "None" ELSE demo.ui_event)
            IN  demo' = [d3 EXCEPT !.frame_counter = @ + 1,
                                   !.pc = IF d3.exit THEN "exited" ELSE "build"]
    /\ UNCHANGED <<n, t, built, stderr, pc, fmt, parse>>

\* What the scene thread does with a message.
SceneHandle(d, msg) ==
    CASE msg.kind = "LoadScene" -> [d EXCEPT !.thread_scene = msg.a]
      [] msg.kind = "SetDrawableSize" -> [d EXCEPT !.thread_size = msg.a]
      [] msg.kind = "Build" ->
            [d EXCEPT !.to_main = Append(@, RenderMsg(d.thread_scene, d.thread_size,
                                                       msg.a, msg.b)),
                      !.answered = @ + 1]

\* SceneThread::run: one iteration of `while let Ok(msg) = self.receiver.recv()`.
SceneThreadRun ==
    /\ demo.pc # "exited"
    /\ demo.to_scene # <<>>
    /\ demo' = SceneHandle([demo EXCEPT !.to_scene = Tail(@)], Head(demo.to_scene))
    /\ UNCHANGED <<n, t, built, stderr, pc, fmt, parse>>

DemoNext ==
    \/ BuildScene \/ HandleEventsEnter \/ WaitEvent \/ PollEvent \/ DrainEvents
    \/ RecvRender \/ DrawScene \/ SceneThreadRun

DemoSpec == DemoInit /\ [][DemoNext]_vars

\* ------------------------------------------------------------- properties
\* The command the loop interpreted last, and the BuiltTurtle it was
\* interpreted in.
HasLast == Len(t) > 0
LastCmd == t[Len(t)]
Front == SubSeq(t, 1, Len(t) - 1)
Before == RunLoop(BuiltNew, Front)

\* The step interprets a command with the given name.
Interprets(op) == t' # t /\ t'[Len(t')].op = op

\* C1: a PopLoc interpreted while the location stack is empty leaves the
\* position unchanged and sets POPLOC_ON_EMPTY_STACK and no other flag; the
\* program "poploc" yields a Scene without objects and paints and flags that
\* render as "poploc on empty stack".
C1_PopLocUnderflowSetsFlag ==
    /\ [][(Interprets("PopLoc") /\ Len(built.state.positions) = 0)
           => /\ built'.state.pos_x = built.state.pos_x
              /\ built'.state.pos_y = built.state.pos_y
              /\ built'.result_flags =
                     FlagsInsert(built.result_flags, ERR_POPLOC_EMPTY_STACK)]_vars
    /\ []((pc = "done" /\ t = <<PopLoc>>)
            => /\ built.scene.objects = <<>>
               /\ built.scene.paints = <<>>
               /\ Display(built.result_flags) = "poploc on empty stack")

\* C2: a PopRot interpreted while the rotation stack is empty leaves the
\* heading unchanged and sets POPROT_ON_EMPTY_STACK, and neither
\* POPLOC_ON_EMPTY_STACK nor UNHANDLED_COMMAND.
C2_PopRotUnderflowSetsFlag ==
    [][(Interprets("PopRot") /\ Len(built.state.directions) = 0)
        => /\ built'.state.direction = built.state.direction
           /\ built'.result_flags =
                  FlagsInsert(built.result_flags, ERR_POPROT_EMPTY_STACK)]_vars

\* C3: the interpreter writes nothing to the console in any state of a run.
C3_NoConsoleOutput == stderr = <<>>

\* C4: every run ends, after one loop iteration per command of the program
\* and none skipped: each step takes exactly one more command and stays in
\* the loop, or leaves the loop at the end of the program; the BuiltTurtle
\* returned is the fold of all n commands.
C4_RunsToTheEnd ==
    /\ <>(pc = "done")
    /\ [](pc = "done" => /\ Len(t) = n
                         /\ built = SetViewBox(RunLoop(BuiltNew, t)))
    /\ [][\/ /\ pc = "loop" /\ pc' = "loop" /\ Len(t) < n
             /\ Len(t') = Len(t) + 1 /\ SubSeq(t', 1, Len(t)) = t
          \/ /\ pc = "loop" /\ pc' = "done" /\ Len(t) = n /\ t' = t]_vars

\* A finished run in which the first command underflowed a stack and the
\* commands after it still moved the turtle.
C4_Witness ==
    /\ pc = "done" /\ Len(t) = 3
    /\ t[1].op \in {"PopLoc", "PopRot"}
    /\ t[3].op = "Move"
    /\ built.state.pos_x # 0

\* C5: the heading and every heading on the rotation stack are in [0, 360).
InRange(deg) == 0 <= deg /\ deg < 360
C5_HeadingInRange ==
    /\ InRange(built.state.direction)
    /\ \A i \in 1..Len(built.state.directions) : InRange(built.state.directions[i])

\* A negative turn of more than a revolution was interpreted, a heading was
\* pushed and popped again.
C5_Witness ==
    /\ Len(t) = 4
    /\ t[1] = Turn(-450) /\ t[2] = PushRot /\ t[3].op = "Direction" /\ t[4] = PopRot
    /\ built.state.direction = 270

C7_ResetGivesFreshState ==
    (pc = "loop" /\ HasLast /\ LastCmd = Reset)
        => /\ built.state.pos_x = 0 /\ built.state.pos_y = 0
           /\ built.state.direction = 0
           /\ built.state.pen_down = FALSE
           /\ built.state.pen_width = Unit
           /\ built.state.pen_color = <<0, 0, 0>>
           /\ built.state.positions = <<>>
           /\ built.state.directions = <<>>
           /\ built.scene.objects = <<>>
           /\ built.scene.paints = <<>>
           /\ built.scene.bounds = [ox |-> 0, oy |-> 0, lx |-> 0, ly |-> 0]
           /\ built.result_flags = 0

\* A Reset interpreted after a stroke was drawn and a position saved.
C7_Witness ==
    /\ pc = "loop" /\ HasLast /\ LastCmd = Reset
    /\ Len(Before.scene.objects) > 0
    /\ Len(Before.state.positions) > 0
    /\ Before.scene.bounds # RectDefault

\* C8: a program that starts with Reset yields the BuiltTurtle (Scene with
\* object identifiers, paints and bounds, turtle state, flags) of the program
\* without that Reset, at every point of the run and at its end.
C8_LeadingResetIsNoOp ==
    (HasLast /\ t[1] = Reset)
        => built = IF pc = "done"
                   THEN SetViewBox(RunLoop(BuiltNew, Tail(t)))
                   ELSE RunLoop(BuiltNew, Tail(t))

\* A finished run of Reset followed by a program that draws a stroke.
C8_Witness ==
    /\ pc = "done" /\ Len(t) = 4 /\ t[1] = Reset
    /\ Len(built.scene.objects) > 0

\* The PushLoc that saved the position a PopLoc at index i + 1 of prog takes:
\* the nearest PushLoc before it, since the last Reset, not matched by a
\* PopLoc in between; 0 when there is none.
RECURSIVE MatchPush(_, _, _)
MatchPush(prog, i, depth) ==
    IF i = 0 THEN 0
    ELSE IF prog[i].op = "Reset" THEN 0
    ELSE IF prog[i].op = "PopLoc" THEN MatchPush(prog, i - 1, depth + 1)
    ELSE IF prog[i].op = "PushLoc"
         THEN IF depth = 0 THEN i ELSE MatchPush(prog, i - 1, depth - 1)
    ELSE MatchPush(prog, i - 1, depth)

Pos(b) == <<b.state.pos_x, b.state.pos_y>>

\* The last 2 * k commands are k PushLoc followed by k PopLoc.
EndsWithPushPop(k) ==
    /\ Len(t) >= 2 * k
    /\ \A i \in 1..k : t[Len(t) - 2 * k + i] = PushLoc
    /\ \A i \in 1..k : t[Len(t) - k + i] = PopLoc

\* C9: a PopLoc puts the turtle at the position saved by the most recent
\* unmatched PushLoc since the last Reset; N PushLoc followed by N PopLoc
\* leave the position and the flags as they were before the first PushLoc;
\* "pushloc move 5 poploc move 5" ends at (5, 0).
C9_LocationStackLifo ==
    /\ (HasLast /\ LastCmd = PopLoc /\ MatchPush(t, Len(t) - 1, 0) > 0)
        => Pos(built) =
               Pos(RunLoop(BuiltNew, SubSeq(t, 1, MatchPush(t, Len(t) - 1, 0) - 1)))
    /\ \A k \in 1..MaxLen :
         EndsWithPushPop(k)
           => LET b0 == RunLoop(BuiltNew, SubSeq(t, 1, Len(t) - 2 * k))
              IN  /\ Pos(built) = Pos(b0)
                  /\ built.result_flags = b0.result_flags
                  /\ ~FlagsContains(built.result_flags, ERR_POPLOC_EMPTY_STACK)
    /\ (t = <<PushLoc, Move(5 * Unit), PopLoc, Move(5 * Unit)>>)
        => Pos(built) = <<5 * Unit, 0>>

\* "pushloc move 5 poploc move 5" was interpreted.
C9_Witness ==
    /\ t = <<PushLoc, Move(5 * Unit), PopLoc, Move(5 * Unit)>>
    /\ Pos(built) = <<5 * Unit, 0>>
    /\ Pos(Before) = <<0, 0>>

\* Rectangle outer contains rectangle inner.
RectContains(outer, inner) ==
    /\ outer.ox <= inner.ox /\ outer.oy <= inner.oy
    /\ outer.lx >= inner.lx /\ outer.ly >= inner.ly

\* C10: every command other than Reset leaves the Scene's bounds containing
\* the bounds that held before it (hence so does every command of a program
\* without Reset).
C10_BoundsMonotonic ==
    [][(t' # t /\ t'[Len(t')].op # "Reset")
        => RectContains(built'.scene.bounds, built.scene.bounds)]_vars

\* The bounds grew twice in a program without Reset.
C10_Witness ==
    /\ Len(t) >= 3
    /\ \A i \in 1..Len(t) : t[i].op # "Reset"
    /\ Before.scene.bounds # RectDefault
    /\ built.scene.bounds # Before.scene.bounds
    /\ RectContains(built.scene.bounds, Before.scene.bounds)

\* The index of the last Reset of the program so far, 0 when there is none,
\* and the BuiltTurtle after the first i commands.
LastResetIdx ==
    IF \E i \in 1..Len(t) : t[i].op = "Reset"
    THEN CHOOSE i \in 1..Len(t) :
             t[i].op = "Reset" /\ \A j \in (i + 1)..Len(t) : t[j].op # "Reset"
    ELSE 0
SinceReset == (LastResetIdx + 1)..Len(t)
At(i) == RunLoop(BuiltNew, SubSeq(t, 1, i))

\* Command i was a Move interpreted with the pen down.
IsStroke(i) == t[i].op = "Move" /\ At(i - 1).state.pen_down

\* Rectangle r contains point p.
PointIn(r, p) == r.ox <= p[1] /\ p[1] <= r.lx /\ r.oy <= p[2] /\ p[2] <= r.ly

\* C11: the Scene's bounds contain both endpoints of every stroke emitted
\* since the last Reset and every position set by a Go, GoX or GoY since the
\* last Reset.
C11_BoundsCoverGeometry ==
    \A i \in SinceReset :
        /\ t[i].op \in {"Go", "GoX", "GoY"}
            => PointIn(built.scene.bounds, Pos(At(i)))
        /\ IsStroke(i)
            => /\ PointIn(built.scene.bounds, Pos(At(i - 1)))
               /\ PointIn(built.scene.bounds, Pos(At(i)))

\* A stroke was drawn, the turtle was then sent below the x axis and turned.
C11_Witness ==
    /\ Len(t) = 4 /\ LastResetIdx = 0
    /\ IsStroke(2) /\ t[3].op = "GoY" /\ t[4].op = "Turn"
    /\ built.scene.bounds.oy = (0 - 2) * Unit
    /\ built.scene.bounds.lx >= 5 * Unit

\* The indices of the pen-down Moves since the last Reset, in program order:
\* the commands that emitted the objects of the Scene.
IsStrokeSinceReset(i) == i > LastResetIdx /\ IsStroke(i)
Strokes == SelectSeq([i \in 1..Len(t) |-> i], IsStrokeSinceReset)

\* The pen colour in force when command i was interpreted, and the pen
\* colours of the strokes since the last Reset, in program order.
ColourAt(i) == At(i - 1).state.pen_color
StrokeColours == LET S == Strokes IN [k \in 1..Len(S) |-> ColourAt(S[k])]

\* C12: the paint list has no two entries with the same RGB colour, and two
\* objects emitted while the pen colour had the same value carry the same
\* paint reference.
C12_PaintsDeduplicated ==
    /\ \A i, j \in 1..Len(built.scene.paints) :
         (i # j) =>
            <<built.scene.paints[i].r, built.scene.paints[i].g, built.scene.paints[i].b>>
              # <<built.scene.paints[j].r, built.scene.paints[j].g, built.scene.paints[j].b>>
    /\ LET colours == StrokeColours
       IN  /\ Len(colours) = Len(built.scene.objects)
           /\ \A j, k \in 1..Len(built.scene.objects) :
                (colours[j] = colours[k])
                   => built.scene.objects[j].paint = built.scene.objects[k].paint

\* Three strokes: black, red, black again; the list holds two paints and the
\* first and third object share a reference.
C12_Witness ==
    /\ Len(t) = 6 /\ Len(built.scene.objects) = 3
    /\ StrokeColours = <<(<<0, 0, 0>>), (<<255, 0, 0>>), (<<0, 0, 0>>)>>
    /\ Len(built.scene.paints) = 2
    /\ built.scene.objects[1].paint = built.scene.objects[3].paint

\* The number a decimal digit string denotes (the inverse of to_string).
RECURSIVE DigitsVal(_)
DigitsVal(ds) ==
    IF Len(ds) = 0 THEN 0
    ELSE 10 * DigitsVal(SubSeq(ds, 1, Len(ds) - 1)) + ds[Len(ds)]

\* C13: the objects are the strokes since the last Reset in the order of
\* their Move commands; a command other than Reset only appends to the list
\* and leaves the objects already there as they are; identifiers increase
\* strictly along the list; the first object created in a run has
\* identifier 1.
C13_ObjectsOrderedAndNumbered ==
    /\ [](/\ LET S == Strokes
             IN  /\ Len(built.scene.objects) = Len(S)
                 /\ \A k \in 1..Len(S) :
                      /\ built.scene.objects[k].outline.from = Pos(At(S[k] - 1))
                      /\ built.scene.objects[k].outline.to = Pos(At(S[k]))
          /\ \A k \in 1..(Len(built.scene.objects) - 1) :
               DigitsVal(built.scene.objects[k].name)
                   < DigitsVal(built.scene.objects[k + 1].name)
          /\ (LastResetIdx = 0 /\ Len(built.scene.objects) > 0)
               => built.scene.objects[1].name = <<1>>)
    /\ [][(t' # t /\ t'[Len(t')].op # "Reset")
           => /\ Len(built'.scene.objects) >= Len(built.scene.objects)
              /\ SubSeq(built'.scene.objects, 1, Len(built.scene.objects))
                     = built.scene.objects]_vars

\* Three strokes were drawn one after the other, numbered 1, 2, 3.
C13_Witness ==
    /\ LastResetIdx = 0
    /\ Len(built.scene.objects) = 3
    /\ built.scene.objects[1].outline.to = built.scene.objects[2].outline.from
    /\ built.scene.objects[2].outline.to # built.scene.objects[3].outline.to
    /\ built.scene.objects[3].name = <<3>>

\* The distinct elements of a sequence in the order of their first occurrence.
RECURSIVE FirstUses(_)
FirstUses(seq) ==
    IF Len(seq) = 0 THEN <<>>
    ELSE LET front == FirstUses(SubSeq(seq, 1, Len(seq) - 1))
             last == seq[Len(seq)]
         IN  IF \E i \in 1..Len(front) : front[i] = last
             THEN front ELSE Append(front, last)

\* C14: the i-th paint of the list is the i-th distinct pen colour used by a
\* stroke since the last Reset, and a command other than Reset leaves the
\* paints already registered at their places.
C14_PaintsInFirstUseOrder ==
    /\ [](LET used == FirstUses(StrokeColours)
          IN  /\ Len(built.scene.paints) = Len(used)
              /\ \A i \in 1..Len(used) :
                   /\ built.scene.paints[i].r = used[i][1]
                   /\ built.scene.paints[i].g = used[i][2]
                   /\ built.scene.paints[i].b = used[i][3])
    /\ [][(t' # t /\ t'[Len(t')].op # "Reset")
           => /\ Len(built'.scene.paints) >= Len(built.scene.paints)
              /\ SubSeq(built'.scene.paints, 1, Len(built.scene.paints))
                     = built.scene.paints]_vars

\* Red was used by a stroke before black was, after a Reset.
C14_Witness ==
    /\ LastResetIdx > 0
    /\ Len(built.scene.paints) = 2
    /\ built.scene.paints[1].r = 255
    /\ built.scene.paints[2].r = 0
    /\ Len(built.scene.objects) = 2

\* C15: the Scene holds one object per Move interpreted with the pen down
\* since the last Reset, a Move of distance 0 included, and none for a Move
\* with the pen up; every object is a Stroke; "penup move 10 pendown move 10"
\* produces exactly one object.
C15_OneObjectPerPenDownMove ==
    /\ Len(built.scene.objects)
         = Cardinality({i \in SinceReset : t[i].op = "Move" /\ At(i - 1).state.pen_down})
    /\ \A k \in 1..Len(built.scene.objects) : built.scene.objects[k].kind = "Stroke"
    /\ (t = <<PenUp, Move(10 * Unit), PenDown, Move(10 * Unit)>>)
         => Len(built.scene.objects) = 1

\* "penup move 10 pendown move 10" followed by a Move of distance 0.
C15_Witness ==
    /\ Len(t) = 5
    /\ SubSeq(t, 1, 4) = <<PenUp, Move(10 * Unit), PenDown, Move(10 * Unit)>>
    /\ t[5] = Move(0)
    /\ Len(built.scene.objects) = 2

\* The last object of the Scene.
LastObject == built.scene.objects[Len(built.scene.objects)]

\* C16: a Move advances the turtle by its distance along the heading
\* (0 is +x, 90 is +y), pen up or down; with the pen down the stroke runs
\* from the position before the Move to the position after it; the stroke of
\* "penup move 10 pendown move 10" spans (10, 0)-(20, 0).
C16_MoveAdvances ==
    /\ (HasLast /\ LastCmd.op = "Move")
        => LET b0 == Before
               h == b0.state.direction
               dx == IF h = 0 THEN LastCmd.a ELSE IF h = 180 THEN 0 - LastCmd.a ELSE 0
               dy == IF h = 90 THEN LastCmd.a ELSE IF h = 270 THEN 0 - LastCmd.a ELSE 0
           IN  /\ Pos(built) = <<b0.state.pos_x + dx, b0.state.pos_y + dy>>
               /\ b0.state.pen_down
                   => /\ Len(built.scene.objects) = Len(b0.scene.objects) + 1
                      /\ LastObject.outline.from = Pos(b0)
                      /\ LastObject.outline.to = Pos(built)
    /\ (t = <<PenUp, Move(10 * Unit), PenDown, Move(10 * Unit)>>)
        => /\ Len(built.scene.objects) = 1
           /\ built.scene.objects[1].outline.from = <<10 * Unit, 0>>
           /\ built.scene.objects[1].outline.to = <<20 * Unit, 0>>

\* A stroke drawn upwards, at heading 90, after a Move with the pen up.
C16_Witness ==
    /\ Len(t) = 4 /\ t[1].op = "Move" /\ t[4].op = "Move"
    /\ Before.state.direction = 90 /\ Before.state.pen_down
    /\ Before.state.pos_x > 0
    /\ built.state.pos_y > 0
    /\ Len(built.scene.objects) = 1

\* C17 as stated: "pendown move 10" produces one object for the segment
\* (0, 0)-(10, 0) whose stroke width is the hairline minimum width.
C17_HairlineByDefault ==
    (t = <<PenDown, Move(10 * Unit)>>)
        => /\ Len(built.scene.objects) = 1
           /\ built.scene.objects[1].outline.from = <<0, 0>>
           /\ built.scene.objects[1].outline.to = <<10 * Unit, 0>>
           /\ built.scene.objects[1].outline.width = HAIRLINE_STROKE_WIDTH

\* C17: "pendown move 10" produces one object for the segment (0, 0)-(10, 0)
\* whose stroke width is the default pen width 1, which is above the hairline
\* minimum width.
C17_DefaultWidthStroke ==
    (t = <<PenDown, Move(10 * Unit)>>)
        => /\ Len(built.scene.objects) = 1
           /\ built.scene.objects[1].outline.from = <<0, 0>>
           /\ built.scene.objects[1].outline.to = <<10 * Unit, 0>>
           /\ built.scene.objects[1].outline.width = Unit
           /\ built.scene.objects[1].outline.width > HAIRLINE_STROKE_WIDTH

\* The run of "pendown move 10" has returned.
C17_Witness ==
    /\ pc = "done"
    /\ t = <<PenDown, Move(10 * Unit)>>
    /\ Len(built.scene.objects) = 1

\* C18: PenWidth(w) stores w as it is; a stroke uses the larger of the pen
\* width and the hairline width, so no stroke is thinner than the hairline.
C18_WidthAtLeastHairline ==
    /\ (HasLast /\ LastCmd.op = "PenWidth") => built.state.pen_width = LastCmd.a
    /\ (HasLast /\ LastCmd.op = "Move" /\ Before.state.pen_down)
        => LastObject.outline.width =
               IF Before.state.pen_width >= HAIRLINE_STROKE_WIDTH
               THEN Before.state.pen_width ELSE HAIRLINE_STROKE_WIDTH
    /\ \A k \in 1..Len(built.scene.objects) :
         built.scene.objects[k].outline.width >= HAIRLINE_STROKE_WIDTH

\* A stroke drawn while the pen width was negative; the next one wider than
\* the hairline.
C18_Witness ==
    /\ Len(t) = 4
    /\ t[1] = PenWidth((0 - 1) * Unit) /\ t[2] = PenDown
    /\ t[3].op = "Move" /\ t[4].op = "PenWidth"
    /\ Before.state.pen_width < 0
    /\ built.scene.objects[1].outline.width = HAIRLINE_STROKE_WIDTH
    /\ built.state.pen_width = 100

\* The smallest rectangle containing rectangle r and point p.
Extended(r, p) ==
    [ox |-> IF p[1] < r.ox THEN p[1] ELSE r.ox,
     oy |-> IF p[2] < r.oy THEN p[2] ELSE r.oy,
     lx |-> IF p[1] > r.lx THEN p[1] ELSE r.lx,
     ly |-> IF p[2] > r.ly THEN p[2] ELSE r.ly]

\* C19: Go, GoX and GoY set both coordinates, x only, y only; they emit no
\* object, pen up or down, and extend the Scene's bounds over the resulting
\* position; a Move with the pen up leaves the Scene's bounds unchanged.
C19_GoSetsPositionAndBounds ==
    /\ (HasLast /\ LastCmd.op = "Go") => Pos(built) = <<LastCmd.a, LastCmd.b>>
    /\ (HasLast /\ LastCmd.op = "GoX") => Pos(built) = <<LastCmd.a, Before.state.pos_y>>
    /\ (HasLast /\ LastCmd.op = "GoY") => Pos(built) = <<Before.state.pos_x, LastCmd.a>>
    /\ (HasLast /\ LastCmd.op \in {"Go", "GoX", "GoY"})
        => /\ built.scene.objects = Before.scene.objects
           /\ built.scene.paints = Before.scene.paints
           /\ built.scene.bounds = Extended(Before.scene.bounds, Pos(built))
    /\ (HasLast /\ LastCmd.op = "Move" /\ ~Before.state.pen_down)
        => built.scene.bounds = Before.scene.bounds

\* A GoX interpreted with the pen down, after a stroke, moved the left edge
\* of the bounds.
C19_Witness ==
    /\ HasLast /\ LastCmd.op = "GoX"
    /\ Before.state.pen_down
    /\ Len(built.scene.objects) = 1
    /\ Before.scene.bounds.ox = 0
    /\ built.scene.bounds.ox = (0 - 1) * Unit

\* The rendering the claim gives for each subset of the flags.
C20_Rendering(flags) ==
    CASE flags = 0 -> ""
      [] flags = 1 -> "unhandled command"
      [] flags = 2 -> "poploc on empty stack"
      [] flags = 3 -> "unhandled command, poploc on empty stack"
      [] flags = 4 -> "poprot on empty stack"
      [] flags = 5 -> "unhandled command, poprot on empty stack"
      [] flags = 6 -> "poploc on empty stack, poprot on empty stack"
      [] flags = 7 -> "unhandled command, poploc on empty stack, poprot on empty stack"

\* C20: for every subset of the three flags, a call of fmt that returns Ok
\* has written the names of exactly the set flags, in the order unhandled
\* command, poploc on empty stack, poprot on empty stack, joined by ", " and
\* with no separator before or after, and nothing when no flag is set.
C20_DisplayRendersFlags ==
    (fmt.pc = "done")
        => /\ fmt.out = fmt.prefix \o C20_Rendering(fmt.self)
           /\ Display(fmt.self) = C20_Rendering(fmt.self)

\* All three flags were rendered into an empty formatter.
C20_Witness ==
    /\ fmt.pc = "done" /\ fmt.self = 7 /\ fmt.prefix = ""
    /\ fmt.out = "unhandled command, poploc on empty stack, poprot on empty stack"

\* ------------------------------------------------------ parser properties
\* A parser call has returned.
ParseFinished == parse.pc \in {"ok", "err"}

\* The lexemes of a text, in textual order.
IsLexeme(x) == x \in Lexemes
LexemesOf(text) == SelectSeq(text, IsLexeme)

\* The lexemes c are one command: a keyword with the arguments it takes.
WellFormedCommand(c) ==
    \/ Len(c) = 1 /\ c[1] \in ZeroArgKeywords \cup TurnKeywords
    \/ Len(c) = 2 /\ c[1] \in OneNumberKeywords \cup TurnKeywords /\ IsNum(c[2])
    \/ Len(c) = 3 /\ c[1] = "go" /\ IsNum(c[2]) /\ IsNum(c[3])
    \/ Len(c) = 6 /\ c[1] = "pencolor" /\ IsNum(c[2]) /\ c[3] = Comma
                  /\ IsNum(c[4]) /\ c[5] = Comma /\ IsNum(c[6])

\* The lexemes s are a sequence of commands.
RECURSIVE IsProgram(_)
IsProgram(s) ==
    \/ s = <<>>
    \/ \E k \in 1..Len(s) :
         /\ WellFormedCommand(SubSeq(s, 1, k))
         /\ IsProgram(SubSeq(s, k + 1, Len(s)))

\* The lexemes of the commands returned, in order.
RECURSIVE Flatten(_)
Flatten(out) ==
    IF out = <<>> THEN <<>>
    ELSE <<Head(out).kw>> \o Head(out).args \o Flatten(Tail(out))

\* The input of a Command parser call that is an unknown word, a
\* zero-argument keyword followed by anything, or pencolor with less than
\* its three components.
Malformed(lexemes) ==
    \/ lexemes[1] \in UnknownWords
    \/ lexemes[1] \in ZeroArgKeywords /\ Len(lexemes) >= 2
    \/ lexemes[1] = "pencolor" /\ Len(lexemes) < 6

\* C21: the command parser answers every malformed input (an unknown
\* keyword, two commands, an argument to a zero-argument keyword, a colour
\* of fewer than three components) with an error and no command; a parser
\* call always returns, and an Ok result accounts for every lexeme of the
\* text, so nothing is skipped.
C21_MalformedIsRejected ==
    /\ (parse.pc \in {"lex", "command", "reduced"}) => ENABLED ParseNext
    /\ (ParseFinished /\ parse.entry = "Command" /\ Malformed(LexemesOf(parse.text)))
        => parse.pc = "err"
    /\ (parse.pc = "err") => parse.out = <<>>
    /\ (parse.pc = "ok") => Flatten(parse.out) = LexemesOf(parse.text)

C21_Witness ==
    /\ parse.pc = "err"
    /\ parse.entry = "Command"
    /\ parse.text = <<"pencolor", Blank, "12.3", Comma, "12.3">>
    /\ parse.out = <<>>

\* C22: the command parser accepts every keyword with the arguments it
\* takes, and returns that command: the zero-argument keywords, gox, goy and
\* penwidth with one number, go with two, pencolor with three numbers
\* separated by commas whatever the white space around the commas, turnleft
\* and turnright with one number or none.
C22_KeywordsAccepted ==
    (ParseFinished /\ parse.entry = "Command" /\ WellFormedCommand(LexemesOf(parse.text)))
        => /\ parse.pc = "ok"
           /\ parse.out = <<[kw |-> Head(LexemesOf(parse.text)),
                             args |-> Tail(LexemesOf(parse.text))]>>

C22_Witness ==
    /\ parse.pc = "ok"
    /\ parse.entry = "Command"
    /\ parse.text = Layout(<<"pencolor", "12.3", Comma, "12.3", Comma, "12.3">>, "wide")
    /\ Len(parse.out) = 1
    /\ parse.out[1].args = <<"12.3", Comma, "12.3", Comma, "12.3">>

\* C23: the top-level parser accepts every sequence of commands and returns
\* one command per command of the text, in textual order; a turn keyword
\* followed by a keyword is the form without a number, so
\* "turnright turnright 12.3 turnleft" is three commands.
C23_ProgramParsedInOrder ==
    /\ (ParseFinished /\ parse.entry = "TopLevel" /\ IsProgram(LexemesOf(parse.text)))
        => /\ parse.pc = "ok"
           /\ Flatten(parse.out) = LexemesOf(parse.text)
           /\ \A i \in 1..Len(parse.out) :
                WellFormedCommand(<<parse.out[i].kw>> \o parse.out[i].args)
    /\ (ParseFinished /\ parse.entry = "TopLevel"
          /\ LexemesOf(parse.text) = <<"turnright", "turnright", "12.3", "turnleft">>)
        => /\ Len(parse.out) = 3
           /\ parse.out[1].kw = "turnright" /\ parse.out[1].args = <<>>
           /\ parse.out[2].kw = "turnright" /\ parse.out[2].args = <<"12.3">>
           /\ parse.out[3].kw = "turnleft" /\ parse.out[3].args = <<>>

C23_Witness ==
    /\ parse.pc = "ok"
    /\ parse.entry = "TopLevel"
    /\ parse.text = <<"turnright", Blank, "turnright", Blank, "12.3", Blank, "turnleft">>
    /\ Len(parse.out) = 3

\* --------------------------------------------------- interpreter, continued
\* b with the view box of b0: what the loop body left of b0.
WithViewBoxOf(b, b0) == [b EXCEPT !.scene.view_box = b0.scene.view_box]

\* C24: PenUp and PenDown change nothing but the pen-down flag; Turn and
\* Direction nothing but the heading; PopRot nothing but the heading and the
\* rotation stack; PushLoc and PushRot nothing but their own stack; PopLoc
\* nothing but the position and the location stack; PenWidth nothing but the
\* pen width; PenColor nothing but the pen colour. In particular none of
\* them changes the Scene's objects, paints or bounds, and neither stack
\* changes under a command of the other.
C24_CommandFrames ==
    HasLast =>
        LET b0 == Before
            b == WithViewBoxOf(built, b0)
            op == LastCmd.op
        IN  /\ op \in {"PenUp", "PenDown"}
                => [b EXCEPT !.state.pen_down = b0.state.pen_down] = b0
            /\ op \in {"Turn", "Direction"}
                => [b EXCEPT !.state.direction = b0.state.direction] = b0
            /\ op = "PopRot"
                => [b EXCEPT !.state.direction = b0.state.direction,
                             !.state.directions = b0.state.directions] = b0
            /\ op = "PushRot"
                => [b EXCEPT !.state.directions = b0.state.directions] = b0
            /\ op = "PushLoc"
                => [b EXCEPT !.state.positions = b0.state.positions] = b0
            /\ op = "PopLoc"
                => [b EXCEPT !.state.pos_x = b0.state.pos_x,
                             !.state.pos_y = b0.state.pos_y,
                             !.state.positions = b0.state.positions] = b0
            /\ op = "PenWidth"
                => [b EXCEPT !.state.pen_width = b0.state.pen_width] = b0
            /\ op = "PenColor"
                => [b EXCEPT !.state.pen_color = b0.state.pen_color] = b0
            /\ op \notin {"Reset", "Move", "Go", "GoX", "GoY"}
                => /\ built.scene.objects = b0.scene.objects
                   /\ built.scene.paints = b0.scene.paints
                   /\ built.scene.bounds = b0.scene.bounds

\* A PopRot took a heading off the rotation stack while a position was saved
\* on the location stack.
C24_Witness ==
    /\ HasLast /\ LastCmd.op = "PopRot"
    /\ Len(Before.state.directions) > 0
    /\ Len(Before.state.positions) > 0
    /\ Len(built.state.positions) = Len(Before.state.positions)

\* The PushRot that saved the heading a PopRot at index i + 1 of prog takes:
\* the nearest PushRot before it, since the last Reset, not matched by a
\* PopRot in between; 0 when there is none.
RECURSIVE MatchPushRot(_, _, _)
MatchPushRot(prog, i, depth) ==
    IF i = 0 THEN 0
    ELSE IF prog[i].op = "Reset" THEN 0
    ELSE IF prog[i].op = "PopRot" THEN MatchPushRot(prog, i - 1, depth + 1)
    ELSE IF prog[i].op = "PushRot"
         THEN IF depth = 0 THEN i ELSE MatchPushRot(prog, i - 1, depth - 1)
    ELSE MatchPushRot(prog, i - 1, depth)

\* The last 2 * k commands are k PushRot followed by k PopRot.
EndsWithPushPopRot(k) ==
    /\ Len(t) >= 2 * k
    /\ \A i \in 1..k : t[Len(t) - 2 * k + i].op = "PushRot"
    /\ \A i \in 1..k : t[Len(t) - k + i].op = "PopRot"

\* C25: a PopRot on a non-empty rotation stack sets the heading to the one
\* saved by the most recent unmatched PushRot since the last Reset, whatever
\* turned the turtle in between, leaves the position alone and sets no flag;
\* N PushRot followed by N PopRot leave the heading as it was before the
\* first PushRot.
C25_RotationStackLifo ==
    /\ (HasLast /\ LastCmd.op = "PopRot" /\ Len(Before.state.directions) > 0)
        => LET m == MatchPushRot(t, Len(t) - 1, 0)
           IN  /\ m > 0
               /\ built.state.direction =
                      RunLoop(BuiltNew, SubSeq(t, 1, m - 1)).state.direction
               /\ Pos(built) = Pos(Before)
               /\ built.result_flags = Before.result_flags
               /\ ~FlagsContains(built.result_flags, ERR_POPROT_EMPTY_STACK)
    /\ \A k \in 1..MaxLen :
         EndsWithPushPopRot(k)
           => built.state.direction =
                  RunLoop(BuiltNew, SubSeq(t, 1, Len(t) - 2 * k)).state.direction

\* Two headings were saved, the turtle turned in between, and a PopRot took
\* the later one.
C25_Witness ==
    /\ Len(t) = 4
    /\ t[1].op = "PushRot" /\ t[2].op = "Turn" /\ t[3].op = "PushRot"
    /\ t[4].op = "PopRot"
    /\ built.state.direction # 0
    /\ Len(built.state.directions) = 1

\* The paint an object refers to.
PaintOf(scene, obj) == scene.paints[obj.paint + 1]

\* C26: every object refers to an entry of the paint list whose RGB is the
\* pen colour in force when its Move was interpreted, with alpha 255, and a
\* command other than Reset (a later PenColor in particular) leaves the
\* paint of every object already emitted as it is.
C26_ObjectPaintIsPenColourAtMove ==
    /\ [](LET colours == StrokeColours
              objs == built.scene.objects
          IN  /\ Len(objs) = Len(colours)
              /\ \A k \in 1..Len(objs) :
                   /\ objs[k].paint \in 0..(Len(built.scene.paints) - 1)
                   /\ PaintOf(built.scene, objs[k]).r = colours[k][1]
                   /\ PaintOf(built.scene, objs[k]).g = colours[k][2]
                   /\ PaintOf(built.scene, objs[k]).b = colours[k][3]
                   /\ PaintOf(built.scene, objs[k]).a = 255)
    /\ [][(t' # t /\ t'[Len(t')].op # "Reset")
           => \A k \in 1..Len(built.scene.objects) :
                /\ built'.scene.objects[k].paint = built.scene.objects[k].paint
                /\ PaintOf(built'.scene, built'.scene.objects[k])
                     = PaintOf(built.scene, built.scene.objects[k])]_vars

\* A stroke was drawn in black and the pen colour was set to red afterwards.
C26_Witness ==
    /\ HasLast /\ LastCmd.op = "PenColor"
    /\ built.state.pen_color = <<255, 0, 0>>
    /\ Len(built.scene.objects) = 1
    /\ PaintOf(built.scene, built.scene.objects[1]).r = 0

\* What from_ast has built for a program at the point the run is at: the
\* view box is set once the loop is over.
Built(prog) ==
    IF pc = "done" THEN SetViewBox(RunLoop(BuiltNew, prog)) ELSE RunLoop(BuiltNew, prog)

\* C27: for every Reset of the program, the Scene (object identifiers
\* included), the turtle state and the flags are those of the run of the
\* commands after that Reset alone.
C27_ResetForgetsPrefix ==
    \A i \in 1..Len(t) :
        (t[i].op = "Reset")
            => LET alone == Built(SubSeq(t, i + 1, Len(t)))
               IN  /\ built.scene = alone.scene
                   /\ built.state = alone.state
                   /\ built.result_flags = alone.result_flags

\* No PenDown was interpreted since the start or the last Reset, up to and
\* including command i.
PenNeverDownUpTo(i) == \A j \in (LastResetIdx + 1)..i : t[j].op # "PenDown"

\* C28: the pen is up at the start of a run and right after every Reset; a
\* Move interpreted before the first PenDown since the start or the last
\* Reset moves the turtle and leaves the Scene's objects, paints and bounds
\* as they are, so until that PenDown the Scene has no object and no paint.
C28_PenStartsUp ==
    /\ (t = <<>>) => ~built.state.pen_down
    /\ (HasLast /\ LastCmd.op = "Reset") => ~built.state.pen_down
    /\ PenNeverDownUpTo(Len(t))
        => /\ ~built.state.pen_down
           /\ built.scene.objects = <<>>
           /\ built.scene.paints = <<>>
    /\ (HasLast /\ LastCmd.op = "Move" /\ PenNeverDownUpTo(Len(t)))
        => LET b0 == Before
               sc == SinCos(b0.state.direction)
           IN  /\ built.state.pos_x = b0.state.pos_x + LastCmd.a * sc[2]
               /\ built.state.pos_y = b0.state.pos_y + LastCmd.a * sc[1]
               /\ Pos(built) # Pos(b0)
               /\ built.scene.objects = b0.scene.objects
               /\ built.scene.paints = b0.scene.paints
               /\ built.scene.bounds = b0.scene.bounds

\* The pen was put down, a Reset followed, and a Move was interpreted before
\* any further PenDown.
C28_Witness ==
    /\ Len(t) = 3
    /\ t[1].op = "PenDown" /\ t[2].op = "Reset" /\ t[3].op = "Move"
    /\ Pos(built) # <<0, 0>>
    /\ built.scene.objects = <<>>

\* C29: in every reachable state the Scene's bounds contain the origin, also
\* when everything drawn lies away from it, and the view box of a finished
\* run equals the bounds.
C29_BoundsContainOrigin ==
    /\ PointIn(built.scene.bounds, <<0, 0>>)
    /\ (pc = "done") => built.scene.view_box = built.scene.bounds

\* A finished run that went to (2, 3) and drew a stroke from there: the
\* stroke does not touch the origin, the bounds reach from it to the stroke.
C29_Witness ==
    /\ pc = "done"
    /\ Len(t) = 3 /\ t[1].op = "Go" /\ t[2].op = "PenDown" /\ t[3].op = "Move"
    /\ Len(built.scene.objects) = 1
    /\ ~PointIn(built.scene.objects[1].outline.bounds, <<0, 0>>)
    /\ built.scene.bounds.ox = 0 /\ built.scene.bounds.oy = 0
    /\ built.scene.bounds.lx > 2 * Unit
    /\ built.scene.view_box = built.scene.bounds

\* C30: every entry of the paint list is referred to by at least one object
\* of the Scene, and a PenColor command leaves the paint list as it is, so a
\* colour that no pen-down Move used is not in the list.
C30_NoOrphanPaints ==
    /\ \A i \in 1..Len(built.scene.paints) :
         \E k \in 1..Len(built.scene.objects) : built.scene.objects[k].paint = i - 1
    /\ (HasLast /\ LastCmd.op = "PenColor") => built.scene.paints = Before.scene.paints
    /\ LET colours == StrokeColours
       IN  \A i \in 1..Len(built.scene.paints) :
             \E k \in 1..Len(colours) :
                colours[k] = <<built.scene.paints[i].r, built.scene.paints[i].g,
                               built.scene.paints[i].b>>

\* Red was set and replaced by black before anything was drawn: the one
\* paint of the finished run is black.
C30_Witness ==
    /\ pc = "done"
    /\ Len(t) = 4
    /\ t[1].op = "PenColor" /\ t[1].a = 255
    /\ t[2].op = "PenColor" /\ t[2].a = 0
    /\ Len(built.scene.objects) = 1
    /\ Len(built.scene.paints) = 1
    /\ built.scene.paints[1].r = 0

\* ------------------------------------------------------------ demo claims
\* Build messages waiting in the channel to the scene thread.
BuildsWaiting == Len(SelectSeq(demo.to_scene, LAMBDA msg : msg.kind = "Build"))

\* A Render was built from the scene that was loaded last when its Build
\* was sent, with a drawable size set.
FromLoadedScene(r) == r.scene = r.loaded /\ r.size >= 0

\* C31: the scene thread answers the Build messages in order, one Render
\* each; the main loop has sent two Builds in its first iteration and one in
\* every later one and has received one Render per iteration; whenever it
\* waits for a Render, one is in the channel or a Build is still to be
\* answered, so a step of the pipeline is possible; at most two Builds were
\* sent and not yet received as a Render; and every Render was built from
\* the scene loaded last before its Build was sent.
C31_PipelineBounded ==
    /\ demo.answered = demo.sent - BuildsWaiting
    /\ demo.received = demo.answered - Len(demo.to_main)
    /\ demo.sent = IF demo.pc = "build"
                   THEN (IF demo.frame_counter = 0 THEN 0 ELSE demo.frame_counter + 1)
                   ELSE IF demo.pc = "exited" THEN demo.frame_counter + 1
                   ELSE demo.frame_counter + 2
    /\ demo.received = IF demo.pc = "draw" THEN demo.frame_counter + 1
                       ELSE demo.frame_counter
    /\ demo.sent - demo.received <= 2
    /\ (demo.pc = "recv") =>
          /\ demo.sent - demo.received >= 1
          /\ demo.to_main # <<>> \/ BuildsWaiting >= 1
          /\ ENABLED RecvRender \/ ENABLED SceneThreadRun
    /\ \A i \in 1..Len(demo.to_main) :
          /\ FromLoadedScene(demo.to_main[i])
          /\ i > 1 => demo.to_main[i - 1].cam <= demo.to_main[i].cam
          /\ demo.drawn.cam <= demo.to_main[i].cam
    /\ (demo.pc = "draw") => FromLoadedScene(demo.render_msg)
    /\ (demo.received > 0) => FromLoadedScene(demo.render_msg)

\* A file was opened in the first frame; the frame drawn third was built
\* after the LoadScene message and shows the new scene, while the fourth
\* Build is still on its way.
C31_Witness ==
    /\ demo.frame_counter = 3
    /\ demo.pc = "events"
    /\ demo.loaded = 1
    /\ demo.drawn.scene = 1
    /\ demo.drawn.loaded = 1
    /\ demo.sent = 5
    /\ demo.received = 3

\* The frame on the screen shows the state the app was last marked dirty
\* for.
DrawnIsCurrent ==
    /\ demo.drawn.scene >= demo.mark.scene
    /\ demo.drawn.size >= demo.mark.size
    /\ demo.drawn.cam >= demo.mark.cam

\* C32: when the main loop blocks in wait_event, the frame on the screen was
\* built from the state of the last change of scene, drawable size or camera
\* the app marked itself dirty for, so that the change is shown without any
\* further input.
C32_NotWaitingOnStaleFrame == (demo.pc = "wait_event") => DrawnIsCurrent

====
